---- MODULE Spec2Model ----
(***************************************************************************)
(* Card-on-file demo: the Express proxy (server.js, kept here as          *)
(* src/unnamed/part_000: create-setup-session and update-customer-phone),  *)
(* the payment provider it calls, and the browser page (frontend/main.js). *)
(*                                                                         *)
(* JavaScript strings that the code inspects character by character       *)
(* (phones, customer ids) are sequences of one-character strings.  Opaque  *)
(* texts (error codes, provider messages) are TLA+ strings.                *)
(***************************************************************************)
EXTENDS Integers, Sequences, FiniteSets, TLC

\* ------------------------------------------------------------------ bounds
\* Requests that arbitrary HTTP clients post in SpecServer.
MaxRequests == 2
\* Length of the texts handed to formatPhoneInput in SpecFormat.
MaxTyped == 11
\* Invocations of render() in one page load: the initial one and popstate's.
MaxRenders == 2
\* Blur events dispatched to the phone field in one page load.
MaxBlurs == 2
\* update-customer-phone requests the page sends in one page load.
MaxUpdates == 2

\* ------------------------------------------------------- program constants
\* server.js 96: the digits that /^\+1\d{10}$/ wants after +1
UsDigits == 10

VARIABLES
    reqs,       \* server: one record per HTTP request, in the order of sending
    customers,  \* provider: customer records
    sessions,   \* provider: checkout sessions
    envOk,      \* page: the build defines VITE_STRIPE_PUBLISHABLE_KEY, VITE_BACKEND_URL
    stripe,     \* page: module-level `stripe` is set
    checkoutInstance, \* page: module-level `checkoutInstance` (0 is null)
    instances,  \* page: the embedded checkout objects the SDK has handed out
    dom,        \* page: what #app holds, and how often it was replaced
    field,      \* page: phoneInput.value of the current document
    phoneError, \* page: #phone-error of the current document
    phoneSuccess, \* page: #phone-success of the current document is displayed
    renders,    \* page: one record per invocation of render()
    listeners,  \* page: invocations whose input/blur listeners are registered
    updates,    \* page: one record per fetch of update-customer-phone
    blurs,      \* page: the blur events dispatched so far, and the last of them
    timers,     \* page: pending setTimeout callbacks, oldest first
    fmtRaw,     \* formatter: the text handed to formatPhoneInput
    fmtValue,   \* formatter: the field after the input listener ran
    fmtAgain    \* formatter: the field after the listener ran on its own output

serverVars == <<reqs, customers, sessions>>
pageVars == <<envOk, stripe, checkoutInstance, instances, dom, field,
              phoneError, phoneSuccess, renders, listeners, updates, blurs,
              timers>>
fmtVars == <<fmtRaw, fmtValue, fmtAgain>>
vars == <<serverVars, pageVars, fmtVars>>

\* ---------------------------------------------------------------- strings
Digit == {"0", "1", "2", "3", "4", "5", "6", "7", "8", "9"}
\* \s of a JavaScript regular expression, and what String.prototype.trim strips
Whitespace == {" ", "\t"}
\* the class [\s\-\(\)]
Separator == Whitespace \cup {"-", "(", ")"}

\* s.replace(/[...]/g, '') for a character class C
RemoveAll(s, C) == SelectSeq(s, LAMBDA c : c \notin C)

\* s.replace(/\D/g, '')
DigitsOnly(s) == SelectSeq(s, LAMBDA c : c \in Digit)

RECURSIVE TrimStart(_)
TrimStart(s) ==
    IF s # <<>> /\ Head(s) \in Whitespace THEN TrimStart(Tail(s)) ELSE s

RECURSIVE TrimEnd(_)
TrimEnd(s) ==
    IF s # <<>> /\ s[Len(s)] \in Whitespace
    THEN TrimEnd(SubSeq(s, 1, Len(s) - 1))
    ELSE s

\* String.prototype.trim
Trim(s) == TrimEnd(TrimStart(s))

\* s.startsWith(p)
StartsWith(s, p) == Len(s) >= Len(p) /\ SubSeq(s, 1, Len(p)) = p

\* s.substring(a, b) with 0-based a, exclusive b, both clamped to the length
Substring(s, a, b) ==
    LET lo == IF a > Len(s) THEN Len(s) ELSE a
        hi == IF b > Len(s) THEN Len(s) ELSE b
    IN  SubSeq(s, lo + 1, hi)

\* ----------------------------------------------------- JavaScript values
\* A JSON body field: absent (undefined), a number, or a string.
Undefined == [t |-> "undefined", s |-> <<>>, n |-> 0]
Num(k) == [t |-> "number", s |-> <<>>, n |-> k]
Str(x) == [t |-> "string", s |-> x, n |-> 0]

\* !v
Falsy(v) ==
    \/ v.t = "undefined"
    \/ v.t = "number" /\ v.n = 0
    \/ v.t = "string" /\ v.s = <<>>

\* typeof v
TypeOf(v) == v.t

\* ------------------------------------------------- server: phone endpoint
\* server.js 93: phone.replace(/[\s\-\(\)]/g, '')
CleanedPhone(phone) == RemoveAll(phone, Separator)

\* server.js 96: /^\+1\d{10}$/.test(s)
UsPhoneRegexTest(s) ==
    /\ StartsWith(s, <<"+", "1">>)
    /\ LET rest == SubSeq(s, 3, Len(s))
       IN  Len(rest) = UsDigits /\ \A i \in 1..Len(rest) : rest[i] \in Digit

\* server.js 78-103, checks in the order the handler makes them, reversed
\* (the phone field is looked at before the customer id)
ValidateUpdateRequestPhoneFirst(customerId, phone) ==
    IF Falsy(phone) \/ TypeOf(phone) # "string" \/ Len(Trim(phone.s)) = 0
    THEN "Phone number is required"
    ELSE IF Falsy(customerId) \/ TypeOf(customerId) # "string"
            \/ Len(Trim(customerId.s)) = 0
    THEN "Customer ID is required"
    ELSE IF ~UsPhoneRegexTest(CleanedPhone(phone.s))
    THEN "Invalid phone format"
    ELSE "ok"

\* server.js 78-103: the three early returns of the handler, "ok" when none
\* is taken
ValidateUpdateRequest(customerId, phone) ==
    IF Falsy(customerId) \/ TypeOf(customerId) # "string"
       \/ Len(Trim(customerId.s)) = 0
    THEN "Customer ID is required"
    ELSE IF Falsy(phone) \/ TypeOf(phone) # "string" \/ Len(Trim(phone.s)) = 0
    THEN "Phone number is required"
    ELSE IF ~UsPhoneRegexTest(CleanedPhone(phone.s))
    THEN "Invalid phone format"
    ELSE "ok"

\* server.js 79-82, 86-89, 99-102: the message that goes with each error
ValidationMessage(error) ==
    CASE error = "Customer ID is required" -> "Please provide a valid customer ID"
      [] error = "Phone number is required" -> "Please provide a valid phone number"
      [] OTHER -> "Phone number must be a valid US number in format +1XXXXXXXXXX"

\* ------------------------------------------------------------- responses
None == <<>>

Response(status, error, message, clientSecret, customerId, success) ==
    [status |-> status, error |-> error, message |-> message,
     clientSecret |-> clientSecret, customerId |-> customerId,
     success |-> success]

\* res.status(400).json({error, message})
BadRequest(error) ==
    Response(400, error, ValidationMessage(error), None, None, FALSE)

\* the catch blocks with the provider's message replaced by a fixed text
ServerErrorMasked(ep, message) ==
    Response(500,
             IF ep = "setup" THEN "Failed to create setup session"
                             ELSE "Failed to update customer phone",
             "Internal error", None, None, FALSE)

\* server.js 65-68 and 117-120: res.status(500).json({error, message})
ServerError(ep, message) ==
    Response(500,
             IF ep = "setup" THEN "Failed to create setup session"
                             ELSE "Failed to update customer phone",
             message, None, None, FALSE)

\* the success body with the identifier of the provider's newest customer
\* rather than of the customer this invocation created
SetupSuccessNewestCustomer(session, customer) ==
    Response(200, "", "", session.client_secret,
             customers[Len(customers)].id, FALSE)

\* server.js 58-61: res.json({clientSecret: session.client_secret,
\* customerId: customer.id})
SetupSuccess(session, customer) ==
    Response(200, "", "", session.client_secret, customer, FALSE)

\* server.js 113: res.json({success: true})
UpdateSuccess == Response(200, "", "", None, None, TRUE)

\* ------------------------------------------------ provider call parameters
Call(req, op, customer, phone, metaPhone, mode, uiMode) ==
    [req |-> req, op |-> op, customer |-> customer, phone |-> phone,
     metaPhone |-> metaPhone, mode |-> mode, uiMode |-> uiMode,
     outcome |-> "pending", message |-> "", result |-> 0]

\* server.js 42-46: stripe.customers.create({metadata: {created_at}})
CustomerCreateCall(req) ==
    Call(req, "customers.create", None, None, None, "", "")

\* server.js 49-55: stripe.checkout.sessions.create({mode, ui_mode, customer,..})
SessionCreateCall(req, customer) ==
    Call(req, "sessions.create", customer, None, None, "setup", "embedded")

\* the update call given the phone as the client sent it
CustomerUpdateCallRaw(req, customerId, phone, cleanedPhone) ==
    Call(req, "customers.update", customerId, phone, phone, "", "")

\* server.js 106-111: stripe.customers.update(customerId, {phone: cleanedPhone,
\* metadata: {phone: cleanedPhone}})
CustomerUpdateCall(req, customerId, phone, cleanedPhone) ==
    Call(req, "customers.update", customerId, cleanedPhone, cleanedPhone,
         "", "")

\* a handler that starts over when a provider call fails
PcAfterFailureRetry(ep) == "recv"

\* server.js 63-69 and 115-121: the catch block answers and the handler ends
PcAfterFailure(ep) == "done"

\* ---------------------------------------------------------------- provider
\* Identifiers the provider hands out: the k-th customer, the k-th session.
DigitChar(k) ==
    CASE k = 0 -> "0" [] k = 1 -> "1" [] k = 2 -> "2" [] k = 3 -> "3"
      [] k = 4 -> "4" [] k = 5 -> "5" [] k = 6 -> "6" [] k = 7 -> "7"
      [] k = 8 -> "8" [] OTHER -> "9"

CustomerIdOf(k) == <<"c", "u", "s", "_", DigitChar(k)>>
ClientSecretOf(k) == <<"c", "s", "_", DigitChar(k)>>

\* error.message of a failed provider call
ProviderMessages == {"No such customer", "Rate limit exceeded"}

\* error.message of a failed provider call, in the page specification
PageMessages == {"Rate limit exceeded"}

CustomerIds == {customers[k].id : k \in 1..Len(customers)}

\* -------------------------------------------------------- server requests
\* One HTTP request: its endpoint and body, the position of its handler, the
\* customer the handler holds, the provider calls the handler has issued and
\* the responses it has sent.
Request(ep, customerId, phone) ==
    [ep |-> ep, customerId |-> customerId, phone |-> phone, pc |-> "recv",
     customer |-> None, calls |-> <<>>, responses |-> <<>>]

Respond(rs, i, r) ==
    [rs EXCEPT ![i].responses = Append(@, r), ![i].pc = "done"]

\* the provider call request i is waiting for
Pending(i) == reqs[i].calls[Len(reqs[i].calls)]

\* the awaited call of request i has settled
Settled(i, outcome, message, result) ==
    [reqs EXCEPT ![i].calls[Len(reqs[i].calls)] =
         [@ EXCEPT !.outcome = outcome, !.message = message,
                   !.result = result]]

\* every provider call issued so far, by request and in the order of issue
RECURSIVE CallsUpTo(_)
CallsUpTo(n) == IF n = 0 THEN <<>> ELSE CallsUpTo(n - 1) \o reqs[n].calls
calls == CallsUpTo(Len(reqs))

\* server.js 39-46: the handler runs up to its first await
SetupHandler(i) ==
    /\ reqs[i].ep = "setup" /\ reqs[i].pc = "recv"
    /\ reqs' = [reqs EXCEPT ![i].pc = "awaitCustomer",
                            ![i].calls = Append(@, CustomerCreateCall(i))]
    /\ UNCHANGED <<customers, sessions>>
    /\ UNCHANGED <<pageVars, fmtVars>>

\* server.js 42-55: customers.create resolves; the handler asks for the session
CustomersCreateResolve(i) ==
    /\ reqs[i].pc = "awaitCustomer"
    /\ LET id == CustomerIdOf(Len(customers) + 1)
       IN  /\ customers' = Append(customers,
                                  [id |-> id, phone |-> None, metaPhone |-> None])
           /\ reqs' = [Settled(i, "ok", "", Len(customers) + 1)
                           EXCEPT ![i].pc = "awaitSession",
                                  ![i].customer = id,
                                  ![i].calls = Append(@, SessionCreateCall(i, id))]
    /\ UNCHANGED sessions
    /\ UNCHANGED <<pageVars, fmtVars>>

\* server.js 42-46, 63-69: customers.create rejects
CustomersCreateReject(i, m) ==
    /\ reqs[i].pc = "awaitCustomer"
    /\ reqs' = [Respond(Settled(i, "failed", m, 0), i, ServerError("setup", m))
                    EXCEPT ![i].pc = PcAfterFailure("setup")]
    /\ UNCHANGED <<customers, sessions>>
    /\ UNCHANGED <<pageVars, fmtVars>>

\* server.js 49-61: sessions.create resolves; the handler answers 200
SessionsCreateResolve(i) ==
    /\ reqs[i].pc = "awaitSession"
    /\ LET c == Pending(i)
           session == [client_secret |-> ClientSecretOf(Len(sessions) + 1),
                       customer |-> c.customer, mode |-> c.mode,
                       ui_mode |-> c.uiMode]
       IN  /\ sessions' = Append(sessions, session)
           /\ reqs' = Respond(Settled(i, "ok", "", Len(sessions) + 1), i,
                              SetupSuccess(session, reqs[i].customer))
    /\ UNCHANGED customers
    /\ UNCHANGED <<pageVars, fmtVars>>

\* server.js 49-55, 63-69: sessions.create rejects
SessionsCreateReject(i, m) ==
    /\ reqs[i].pc = "awaitSession"
    /\ reqs' = [Respond(Settled(i, "failed", m, 0), i, ServerError("setup", m))
                    EXCEPT ![i].pc = PcAfterFailure("setup")]
    /\ UNCHANGED <<customers, sessions>>
    /\ UNCHANGED <<pageVars, fmtVars>>

\* server.js 73-111: validation, then the handler runs up to its await
UpdatePhoneHandler(i) ==
    /\ reqs[i].ep = "phone" /\ reqs[i].pc = "recv"
    /\ LET v == ValidateUpdateRequest(reqs[i].customerId, reqs[i].phone)
       IN  IF v # "ok"
           THEN reqs' = Respond(reqs, i, BadRequest(v))
           ELSE reqs' = [reqs EXCEPT
                           ![i].pc = "awaitUpdate",
                           ![i].calls = Append(@,
                               CustomerUpdateCall(i, reqs[i].customerId.s,
                                   reqs[i].phone.s,
                                   CleanedPhone(reqs[i].phone.s)))]
    /\ UNCHANGED <<customers, sessions>>
    /\ UNCHANGED <<pageVars, fmtVars>>

\* server.js 106-113: customers.update resolves (the provider knows the
\* customer and stores both fields); the handler answers 200
CustomersUpdateResolve(i) ==
    /\ reqs[i].pc = "awaitUpdate"
    /\ LET c == Pending(i)
       IN  /\ c.customer \in CustomerIds
           /\ customers' = [k \in 1..Len(customers) |->
                              IF customers[k].id = c.customer
                              THEN [customers[k] EXCEPT !.phone = c.phone,
                                                        !.metaPhone = c.metaPhone]
                              ELSE customers[k]]
    /\ reqs' = Respond(Settled(i, "ok", "", 0), i, UpdateSuccess)
    /\ UNCHANGED sessions
    /\ UNCHANGED <<pageVars, fmtVars>>

\* server.js 106-111, 115-121: customers.update rejects
CustomersUpdateReject(i, m) ==
    /\ reqs[i].pc = "awaitUpdate"
    /\ reqs' = [Respond(Settled(i, "failed", m, 0), i, ServerError("phone", m))
                    EXCEPT ![i].pc = PcAfterFailure("phone")]
    /\ UNCHANGED <<customers, sessions>>
    /\ UNCHANGED <<pageVars, fmtVars>>

\* ------------------------------------------------- SpecServer: any client
D10 == <<"5", "5", "5", "1", "2", "3", "4", "5", "6", "7">>
CanonicalP == <<"+", "1">> \o D10
\* "+1 (555) 123-4567"
SpacedP == <<"+", "1", " ", "(", "5", "5", "5", ")", " ", "1", "2", "3", "-",
             "4", "5", "6", "7">>

\* customerId fields a client may send
ClientCustomerIds ==
    {Undefined, Num(5), Str(<<" ", "\t">>), Str(CustomerIdOf(1))}

\* phone fields a client may send: absent, a number, blank, canonical,
\* canonical with separators, 7 digits, 9 and 11 digits after +1, no plus,
\* another country code, a letter among the digits
ClientPhones ==
    {Undefined, Num(0), Str(<<" ">>), Str(CanonicalP), Str(SpacedP),
     Str(<<"5", "5", "5", "1", "2", "3", "4">>),
     Str(SubSeq(CanonicalP, 1, 11)),
     Str(CanonicalP \o <<"8">>),
     Str(<<"1">> \o D10),
     Str(<<"+", "2">> \o D10),
     Str(SubSeq(CanonicalP, 1, 11) \o <<"a">>)}

ClientPostSetup ==
    /\ Len(reqs) < MaxRequests
    /\ reqs' = Append(reqs, Request("setup", Undefined, Undefined))
    /\ UNCHANGED <<customers, sessions>>
    /\ UNCHANGED <<pageVars, fmtVars>>

ClientPostPhone ==
    /\ Len(reqs) < MaxRequests
    /\ \E c \in ClientCustomerIds, p \in ClientPhones :
           reqs' = Append(reqs, Request("phone", c, p))
    /\ UNCHANGED <<customers, sessions>>
    /\ UNCHANGED <<pageVars, fmtVars>>

PageIdle ==
    /\ stripe = FALSE
    /\ checkoutInstance = 0
    /\ instances = <<>>
    /\ dom = [gen |-> 0, page |-> "blank"]
    /\ field = <<>>
    /\ phoneError = [shown |-> FALSE, text |-> ""]
    /\ phoneSuccess = FALSE
    /\ renders = <<>>
    /\ listeners = <<>>
    /\ updates = <<>>
    /\ blurs = [count |-> 0, value |-> <<>>, sent |-> 0]
    /\ timers = <<>>

FmtIdle ==
    /\ fmtRaw = <<>>
    /\ fmtValue = <<>>
    /\ fmtAgain = <<>>

ServerInit ==
    /\ reqs = <<>>
    /\ customers = <<>>
    /\ sessions = <<>>

ServerNext ==
    \/ \E i \in 1..Len(reqs) : SetupHandler(i)
    \/ \E i \in 1..Len(reqs) : CustomersCreateResolve(i)
    \/ \E i \in 1..Len(reqs), m \in ProviderMessages : CustomersCreateReject(i, m)
    \/ \E i \in 1..Len(reqs) : SessionsCreateResolve(i)
    \/ \E i \in 1..Len(reqs), m \in ProviderMessages : SessionsCreateReject(i, m)
    \/ \E i \in 1..Len(reqs) : UpdatePhoneHandler(i)
    \/ \E i \in 1..Len(reqs) : CustomersUpdateResolve(i)
    \/ \E i \in 1..Len(reqs), m \in ProviderMessages : CustomersUpdateReject(i, m)

SpecServerInit == ServerInit /\ envOk = TRUE /\ PageIdle /\ FmtIdle

SpecServerNext ==
    \/ ClientPostSetup
    \/ ClientPostPhone
    \/ ServerNext

SpecServer == SpecServerInit /\ [][SpecServerNext]_vars

\* ------------------------------------------------------- claims: server
PhoneRequests == {i \in 1..Len(reqs) : reqs[i].ep = "phone"}
SetupRequests == {i \in 1..Len(reqs) : reqs[i].ep = "setup"}
Handled(i) == reqs[i].pc # "recv"

\* a body field that is missing, not a string, or made of whitespace only
MissingOrBlank(v) ==
    v.t # "string" \/ \A k \in 1..Len(v.s) : v.s[k] \in Whitespace

\* +1 followed by exactly ten digits
IsCanonical(s) ==
    /\ Len(s) = UsDigits + 2
    /\ s[1] = "+" /\ s[2] = "1"
    /\ \A k \in 3..Len(s) : s[k] \in Digit

Stripped(s) == RemoveAll(s, Separator)

ValidBody(i) ==
    /\ ~MissingOrBlank(reqs[i].customerId)
    /\ ~MissingOrBlank(reqs[i].phone)
    /\ IsCanonical(Stripped(reqs[i].phone.s))

Rejected(i, error) ==
    /\ Len(reqs[i].responses) = 1
    /\ reqs[i].responses[1].status = 400
    /\ reqs[i].responses[1].error = error

CallsOf(i, op) ==
    {k \in 1..Len(calls) : calls[k].req = i /\ calls[k].op = op}

\* C1: validation of update-customer-phone is fail-fast in the order customer
\* id, phone, format; the first violation decides the 400 response, and a
\* request gets exactly one response.
C1_ValidationOrder ==
    \A i \in PhoneRequests :
        /\ Len(reqs[i].responses) <= 1
        /\ reqs[i].pc = "done" => Len(reqs[i].responses) = 1
        /\ Handled(i) =>
            /\ MissingOrBlank(reqs[i].customerId)
                   => Rejected(i, "Customer ID is required")
            /\ ~MissingOrBlank(reqs[i].customerId)
                 /\ MissingOrBlank(reqs[i].phone)
                   => Rejected(i, "Phone number is required")
            /\ ~MissingOrBlank(reqs[i].customerId)
                 /\ ~MissingOrBlank(reqs[i].phone)
                 /\ ~IsCanonical(Stripped(reqs[i].phone.s))
                   => Rejected(i, "Invalid phone format")

\* a blank customer id with a canonical phone is rejected for the customer id,
\* and a request with both fields present is rejected for the format
C1_Witness ==
    /\ \E i \in PhoneRequests :
           /\ MissingOrBlank(reqs[i].customerId)
           /\ reqs[i].phone = Str(CanonicalP)
           /\ Rejected(i, "Customer ID is required")
    /\ \E i \in PhoneRequests :
           /\ ~MissingOrBlank(reqs[i].customerId)
           /\ reqs[i].phone.t = "string"
           /\ Rejected(i, "Invalid phone format")

\* C2: customers.update is only ever called with the stripped phone, which is
\* +1 and ten digits, in both fields; a request answered 400 makes no provider
\* call and a valid request exactly one.
C2_CanonicalUpdateOnly ==
    /\ \A k \in 1..Len(calls) :
           calls[k].op = "customers.update" =>
               /\ IsCanonical(calls[k].phone)
               /\ calls[k].phone = Stripped(reqs[calls[k].req].phone.s)
               /\ calls[k].metaPhone = calls[k].phone
    /\ \A i \in PhoneRequests :
           /\ (\E r \in 1..Len(reqs[i].responses) :
                   reqs[i].responses[r].status = 400)
                  => \A k \in 1..Len(calls) : calls[k].req # i
           /\ Handled(i) /\ ValidBody(i)
                  => Cardinality(CallsOf(i, "customers.update")) = 1
           /\ Cardinality(CallsOf(i, "customers.update")) <= 1

\* a phone sent with separators was stored stripped and answered 200
C2_Witness ==
    \E i \in PhoneRequests :
        /\ reqs[i].phone = Str(SpacedP)
        /\ reqs[i].responses = <<UpdateSuccess>>
        /\ \E k \in CallsOf(i, "customers.update") :
               calls[k].phone = CanonicalP /\ calls[k].outcome = "ok"

GenericError(ep) ==
    IF ep = "setup" THEN "Failed to create setup session"
                    ELSE "Failed to update customer phone"

\* C3: a failed provider call yields one 500 response with the generic error
\* code and the provider's message unchanged; the call is not retried, no
\* provider operation is attempted twice for a request, and no success response
\* is sent.
C3_ProviderFailure ==
    /\ \A k \in 1..Len(calls) :
           calls[k].outcome = "failed" =>
               LET i == calls[k].req
               IN  /\ Len(reqs[i].responses) = 1
                   /\ reqs[i].responses[1].status = 500
                   /\ reqs[i].responses[1].error = GenericError(reqs[i].ep)
                   /\ reqs[i].responses[1].message = calls[k].message
                   /\ reqs[i].responses[1].clientSecret = None
                   /\ ~reqs[i].responses[1].success
                   /\ \A k2 \in 1..Len(calls) : calls[k2].req = i => k2 <= k
    /\ \A i \in 1..Len(reqs) :
           \A op \in {"customers.create", "sessions.create", "customers.update"} :
               Cardinality(CallsOf(i, op)) <= 1

\* in both endpoints a provider call has failed and was answered 500: the
\* session creation after a successful customer creation, and the update
C3_Witness ==
    /\ \E k \in 1..Len(calls) :
           /\ calls[k].op = "sessions.create"
           /\ calls[k].outcome = "failed"
           /\ reqs[calls[k].req].responses[1].message = "Rate limit exceeded"
    /\ \E k \in 1..Len(calls) :
           /\ calls[k].op = "customers.update"
           /\ calls[k].outcome = "failed"
           /\ reqs[calls[k].req].responses[1].message = "No such customer"

CustomersCreatedBy(i) ==
    {k \in CallsOf(i, "customers.create") : calls[k].outcome = "ok"}
SessionsCreatedBy(i) ==
    {k \in CallsOf(i, "sessions.create") : calls[k].outcome = "ok"}
Answered(i, status) ==
    reqs[i].pc = "done" /\ \E r \in 1..Len(reqs[i].responses) :
                               reqs[i].responses[r].status = status

\* C4 as stated: every finished invocation of create-setup-session has created
\* exactly one customer and exactly one session, whatever the provider did, so
\* n finished invocations leave n customers and n sessions.
C4_Original ==
    /\ \A i \in SetupRequests :
           reqs[i].pc = "done" =>
               /\ Cardinality(CustomersCreatedBy(i)) = 1
               /\ Cardinality(SessionsCreatedBy(i)) = 1
    /\ (\A i \in SetupRequests : reqs[i].pc = "done") =>
           /\ Len(customers) = Cardinality(SetupRequests)
           /\ Len(sessions) = Cardinality(SetupRequests)

\* C4 amended: an invocation creates at most one customer and, only after the
\* customer, at most one session; answered 200 it has created exactly one of
\* each, answered 500 it has created no session (and no customer either when
\* customers.create was the call that failed).  The provider holds one
\* customer per successful customers.create, all distinct, and as many sessions
\* as invocations answered 200.
C4_Amended ==
    /\ \A i \in SetupRequests :
           /\ Cardinality(CallsOf(i, "customers.create")) <= 1
           /\ Cardinality(CallsOf(i, "sessions.create"))
                  <= Cardinality(CustomersCreatedBy(i))
           /\ Answered(i, 200) =>
                  /\ Cardinality(CustomersCreatedBy(i)) = 1
                  /\ Cardinality(SessionsCreatedBy(i)) = 1
           /\ Answered(i, 500) =>
                  /\ Cardinality(SessionsCreatedBy(i)) = 0
                  /\ (\E k \in CallsOf(i, "customers.create") :
                          calls[k].outcome = "failed")
                         => Cardinality(CustomersCreatedBy(i)) = 0
    /\ Len(customers) <= Cardinality({i \in SetupRequests : Handled(i)})
    /\ Len(sessions) = Cardinality({i \in SetupRequests : Answered(i, 200)})
    /\ \A a, b \in 1..Len(customers) :
           customers[a].id = customers[b].id => a = b

\* two invocations are finished: one answered 200, the other answered 500
\* after its customer was created, leaving two customers and one session
C4_Witness ==
    /\ \E i, j \in SetupRequests :
           /\ Answered(i, 200)
           /\ Answered(j, 500)
           /\ Cardinality(CustomersCreatedBy(j)) = 1
    /\ Len(customers) = 2
    /\ Len(sessions) = 1

ValidatePhone(phone) ==
    LET cleaned == RemoveAll(phone, Separator)
        body == IF StartsWith(cleaned, <<"+">>) THEN Tail(cleaned) ELSE cleaned
    IN  /\ Len(body) >= 10 /\ Len(body) <= 15
        /\ \A k \in 1..Len(body) : body[k] \in Digit

\* main.js 19-40: formatPhoneToUS
FormatPhoneToUS(phone) ==
    LET digitsOnly == DigitsOnly(phone)
    IN  IF Len(digitsOnly) = 11 /\ StartsWith(digitsOnly, <<"1">>)
        THEN <<"+">> \o digitsOnly
        ELSE IF Len(digitsOnly) = 10
        THEN <<"+", "1">> \o digitsOnly
        ELSE IF StartsWith(phone, <<"+">>)
        THEN RemoveAll(phone, Separator)
        ELSE digitsOnly

\* formatPhoneInput writing the country code in front of a complete number
FormatPhoneInputCountryCode(input) ==
    LET digitsOnly == DigitsOnly(input)
        limited == Substring(digitsOnly, 0, 10)
    IN  IF Len(limited) <= 3
        THEN limited
        ELSE IF Len(limited) <= 6
        THEN <<"(">> \o Substring(limited, 0, 3) \o <<")", " ">>
                 \o Substring(limited, 3, Len(limited))
        ELSE IF Len(limited) < 10
        THEN <<"(">> \o Substring(limited, 0, 3) \o <<")", " ">>
                 \o Substring(limited, 3, 6) \o <<"-">>
                 \o Substring(limited, 6, Len(limited))
        ELSE <<"1", " ", "(">> \o Substring(limited, 0, 3) \o <<")", " ">>
                 \o Substring(limited, 3, 6) \o <<"-">>
                 \o Substring(limited, 6, Len(limited))

\* main.js 43-57: formatPhoneInput
FormatPhoneInput(input) ==
    LET digitsOnly == DigitsOnly(input)
        limited == Substring(digitsOnly, 0, 10)
    IN  IF Len(limited) <= 3
        THEN limited
        ELSE IF Len(limited) <= 6
        THEN <<"(">> \o Substring(limited, 0, 3) \o <<")", " ">>
                 \o Substring(limited, 3, Len(limited))
        ELSE <<"(">> \o Substring(limited, 0, 3) \o <<")", " ">>
                 \o Substring(limited, 3, 6) \o <<"-">>
                 \o Substring(limited, 6, Len(limited))

\* ----------------------------------------- SpecFormat: the input listener
\* Characters a text is made of: two digits, and a non-digit that the formatter
\* itself writes.
TypedChars == {"1", "7", "-"}

\* main.js 246-249 on a text that grew by one character: the listener formats
\* it, and an input event on the formatted field formats it again
FormatInput(c) ==
    /\ Len(fmtRaw) < MaxTyped
    /\ fmtRaw' = Append(fmtRaw, c)
    /\ fmtValue' = FormatPhoneInput(fmtRaw')
    /\ fmtAgain' = FormatPhoneInput(fmtValue')
    /\ UNCHANGED <<serverVars, pageVars>>

SpecFormatInit == ServerInit /\ envOk = TRUE /\ PageIdle /\ FmtIdle

SpecFormatNext == \E c \in TypedChars : FormatInput(c)

SpecFormat == SpecFormatInit /\ [][SpecFormatNext]_vars

\* ------------------------------------------------------ claims: formatter
\* C9: formatPhoneInput is idempotent: formatting its own output leaves it as
\* it is, for every text, so running the listener again never changes the
\* field.
C9_FormatIdempotent ==
    /\ fmtAgain = fmtValue
    /\ FormatPhoneInput(FormatPhoneInput(fmtRaw)) = FormatPhoneInput(fmtRaw)

\* a text of more than ten digits, not all the same, was cut to
\* (XXX) XXX-XXXX
C9_Witness ==
    /\ Len(DigitsOnly(fmtRaw)) > 10
    /\ \E j, k \in 1..Len(fmtRaw) : fmtRaw[j] # fmtRaw[k]
    /\ Len(fmtValue) = 14
    /\ fmtValue[1] = "(" /\ fmtValue[5] = ")" /\ fmtValue[6] = " "
    /\ fmtValue[10] = "-"
    /\ fmtAgain = fmtValue

\* ------------------------------------------------------------ browser page
\* main.js 152-153 and the position of one invocation of render()
RenderRecord(pc) ==
    [pc |-> pc, els |-> 0, customerId |-> None, lastSavedPhone |-> None,
     req |-> 0]

\* app.innerHTML = ...: the document's elements are replaced by new ones
NewDom(page, times) == [gen |-> dom.gen + times, page |-> page]

HiddenError == [shown |-> FALSE, text |-> ""]

\* main.js 156: if (checkoutInstance)
CheckoutGuard == checkoutInstance # 0

\* main.js 147-166: the elements are looked up (null, here 0, when the current
\* document is not the billing page), the guard is tested, the session is
\* requested
AfterStripe(rs, r, d) ==
    LET els == IF d.page = "billing" THEN d.gen ELSE 0
    IN  IF CheckoutGuard
        THEN /\ renders' = [rs EXCEPT ![r].pc = "returned", ![r].els = els]
             /\ UNCHANGED reqs
        ELSE /\ renders' = [rs EXCEPT ![r].pc = "awaitSession", ![r].els = els,
                                      ![r].req = Len(reqs) + 1]
             /\ reqs' = Append(reqs, Request("setup", Undefined, Undefined))

\* main.js 78-85, 295-310: render() on a URL with success=true
RenderReturnPage ==
    /\ Len(renders) < MaxRenders
    /\ renders' = Append(renders, RenderRecord("returnPage"))
    /\ dom' = NewDom("return", 1)
    /\ field' = <<>>
    /\ phoneError' = HiddenError
    /\ phoneSuccess' = FALSE
    /\ UNCHANGED <<envOk, stripe, checkoutInstance, instances, listeners,
                   updates, blurs, timers>>
    /\ UNCHANGED <<serverVars, fmtVars>>

\* main.js 78-166, 280-291: render() on any other URL, up to its first await
RenderBillingPage ==
    /\ Len(renders) < MaxRenders
    /\ field' = <<>>
    /\ phoneError' = HiddenError
    /\ phoneSuccess' = FALSE
    /\ LET r == Len(renders) + 1
       IN  IF ~envOk
           THEN /\ renders' = Append(renders, RenderRecord("failed"))
                /\ dom' = NewDom("error", 3)
                /\ UNCHANGED reqs
           ELSE IF ~stripe
           THEN /\ renders' = Append(renders, RenderRecord("awaitLoadStripe"))
                /\ dom' = NewDom("billing", 2)
                /\ UNCHANGED reqs
           ELSE /\ dom' = NewDom("billing", 2)
                /\ AfterStripe(Append(renders, RenderRecord("start")), r, dom')
    /\ UNCHANGED <<envOk, stripe, checkoutInstance, instances, listeners,
                   updates, blurs, timers>>
    /\ UNCHANGED <<customers, sessions, fmtVars>>

\* main.js 143-166: loadStripe resolves
LoadStripeResolve(r) ==
    /\ renders[r].pc = "awaitLoadStripe"
    /\ stripe' = TRUE
    /\ AfterStripe(renders, r, dom)
    /\ UNCHANGED <<envOk, checkoutInstance, instances, dom, field, phoneError,
                   phoneSuccess, listeners, updates, blurs, timers>>
    /\ UNCHANGED <<customers, sessions, fmtVars>>

\* main.js 280-291: the outer catch replaces the page by an error page
SetupFailed(r) ==
    /\ renders' = [renders EXCEPT ![r].pc = "failed"]
    /\ dom' = NewDom("error", 1)
    /\ field' = <<>>
    /\ phoneError' = HiddenError
    /\ phoneSuccess' = FALSE
    /\ UNCHANGED listeners

\* main.js 143-145, 280-291: loadStripe rejects
LoadStripeReject(r) ==
    /\ renders[r].pc = "awaitLoadStripe"
    /\ SetupFailed(r)
    /\ UNCHANGED <<envOk, stripe, checkoutInstance, instances, updates,
                   blurs, timers>>
    /\ UNCHANGED <<serverVars, fmtVars>>

\* main.js 245-278: the input and blur listeners are registered
ListenersRegistered(r, rs) ==
    /\ renders' = [rs EXCEPT ![r].pc = "ready"]
    /\ listeners' = Append(listeners, r)
    /\ UNCHANGED <<dom, field, phoneError, phoneSuccess>>

\* main.js 195-202, then 245-278: the inner catch writes the error into the
\* checkout container (a TypeError when the container is null, which the
\* outer catch takes), then the listeners are registered
CheckoutFailed(r, rs) ==
    IF rs[r].els = 0 THEN SetupFailed(r) ELSE ListenersRegistered(r, rs)

\* main.js 168-190: the answer to create-setup-session arrives
SessionResponse(r) ==
    /\ renders[r].pc = "awaitSession"
    /\ reqs[renders[r].req].pc = "done"
    /\ LET resp == reqs[renders[r].req].responses[1]
       IN  IF resp.status = 200 /\ resp.clientSecret # None
           THEN /\ renders' = [renders EXCEPT ![r].pc = "awaitInit",
                                              ![r].customerId = resp.customerId]
                /\ UNCHANGED <<dom, field, phoneError, phoneSuccess, listeners>>
           ELSE CheckoutFailed(r, renders)
    /\ UNCHANGED <<envOk, stripe, checkoutInstance, instances, updates,
                   blurs, timers>>
    /\ UNCHANGED <<serverVars, fmtVars>>

\* main.js 162-166, 195-202: the fetch of create-setup-session rejects
SessionNetworkError(r) ==
    /\ renders[r].pc = "awaitSession"
    /\ CheckoutFailed(r, renders)
    /\ UNCHANGED <<envOk, stripe, checkoutInstance, instances, updates,
                   blurs, timers>>
    /\ UNCHANGED <<serverVars, fmtVars>>

\* main.js 188-193, 245-278: initEmbeddedCheckout resolves, the instance is
\* stored and mounted on #checkout of the current document (clearing a null
\* container throws, and so does the inner catch: the outer catch takes it;
\* a failed mount is caught by the inner catch); the listeners are registered
InitResolve(r) ==
    /\ renders[r].pc = "awaitInit"
    /\ LET mountedOn == IF renders[r].els # 0 /\ dom.page = "billing"
                        THEN dom.gen ELSE 0
       IN  instances' = Append(instances,
               [clientSecret |-> reqs[renders[r].req].responses[1].clientSecret,
                render |-> r, mounted |-> mountedOn])
    /\ checkoutInstance' = Len(instances) + 1
    /\ IF renders[r].els = 0
       THEN SetupFailed(r)
       ELSE ListenersRegistered(r, renders)
    /\ UNCHANGED <<envOk, stripe, updates, blurs, timers>>
    /\ UNCHANGED <<serverVars, fmtVars>>

\* main.js 188-202: initEmbeddedCheckout rejects
InitReject(r) ==
    /\ renders[r].pc = "awaitInit"
    /\ CheckoutFailed(r, renders)
    /\ UNCHANGED <<envOk, stripe, checkoutInstance, instances, updates,
                   blurs, timers>>
    /\ UNCHANGED <<serverVars, fmtVars>>

\* the listeners registered on the phone field of the current document, in
\* the order of their registration
ActiveListeners ==
    IF dom.page = "billing"
    THEN SelectSeq(listeners, LAMBDA r : renders[r].els = dom.gen)
    ELSE <<>>

\* a digit count test that lets longer numbers through
ValidDigitCountAtLeast(digitsOnly) == Len(digitsOnly) >= 10

\* main.js 266: digitsOnly.length !== 10
ValidDigitCount(digitsOnly) == Len(digitsOnly) = 10

\* a guard that never finds the phone saved
SameAsLastSavedNever(phone, lastSavedPhone) == FALSE

\* main.js 212: phone === lastSavedPhone
SameAsLastSaved(phone, lastSavedPhone) == phone = lastSavedPhone

\* main.js 205-221: updateCustomerPhone up to its await
UpdateCustomerPhone(r, phone, st) ==
    IF renders[r].customerId = None
    THEN st
    ELSE IF SameAsLastSaved(phone, renders[r].lastSavedPhone)
    THEN st
    ELSE [st EXCEPT
            !.reqs = Append(@, Request("phone", Str(renders[r].customerId),
                                       Str(phone))),
            !.updates = Append(@, [render |-> r, phone |-> phone,
                                   req |-> Len(st.reqs) + 1,
                                   state |-> "inflight",
                                   value |-> field,
                                   blur |-> blurs.count + 1])]

\* main.js 252-278: the blur listener of invocation r
BlurListener(r, st) ==
    LET phone == Trim(field)
        digitsOnly == DigitsOnly(phone)
    IN  IF phone = <<>>
        THEN [st EXCEPT !.phoneError.shown = FALSE, !.phoneSuccess = FALSE]
        ELSE IF ~ValidDigitCount(digitsOnly)
        THEN [st EXCEPT
                !.phoneError =
                    [shown |-> TRUE,
                     text |-> "Please enter a valid 10-digit US phone number"],
                !.phoneSuccess = FALSE]
        ELSE UpdateCustomerPhone(r, FormatPhoneToUS(phone), st)

RECURSIVE DispatchBlur(_, _)
DispatchBlur(ls, st) ==
    IF ls = <<>> THEN st
    ELSE DispatchBlur(Tail(ls), BlurListener(Head(ls), st))

\* a blur event on the phone field: every listener registered on it runs
Blur ==
    /\ ActiveListeners # <<>>
    /\ blurs.count < MaxBlurs
    /\ LET st == DispatchBlur(ActiveListeners,
                              [reqs |-> reqs, updates |-> updates,
                               phoneError |-> phoneError,
                               phoneSuccess |-> phoneSuccess])
       IN  /\ Len(st.updates) <= MaxUpdates
           /\ reqs' = st.reqs
           /\ updates' = st.updates
           /\ phoneError' = st.phoneError
           /\ phoneSuccess' = st.phoneSuccess
    /\ blurs' = [count |-> blurs.count + 1, value |-> field,
                  sent |-> Len(updates') - Len(updates)]
    /\ UNCHANGED <<envOk, stripe, checkoutInstance, instances, dom, field,
                   renders, listeners, timers>>
    /\ UNCHANGED <<customers, sessions, fmtVars>>

\* what the user may leave in the field by typing or pasting: nothing, ten
\* digits, or a number with its country code (eleven digits as typed, and
\* another ten-digit number once the input listener has cut it)
Typed == {<<>>, D10, CanonicalP}

RECURSIVE InputListeners(_, _)
InputListeners(ls, value) ==
    IF ls = <<>> THEN value
    ELSE InputListeners(Tail(ls), FormatPhoneInput(value))

\* main.js 246-249: an input event; every registered listener reformats
Input(text) ==
    /\ dom.page = "billing"
    /\ blurs.count < MaxBlurs
    /\ field' = InputListeners(ActiveListeners, text)
    /\ field' # field
    /\ UNCHANGED <<envOk, stripe, checkoutInstance, instances, dom, phoneError,
                   phoneSuccess, renders, listeners, updates, blurs, timers>>
    /\ UNCHANGED <<serverVars, fmtVars>>

Visible(r) == dom.page = "billing" /\ renders[r].els = dom.gen

\* main.js 223-242: the answer to update-customer-phone arrives
UpdateResponse(u) ==
    /\ updates[u].state = "inflight"
    /\ reqs[updates[u].req].pc = "done"
    /\ LET resp == reqs[updates[u].req].responses[1]
           r == updates[u].render
       IN  IF resp.status = 200
           THEN /\ renders' = [renders EXCEPT
                                 ![r].lastSavedPhone = updates[u].phone]
                /\ updates' = [updates EXCEPT ![u].state = "ok"]
                /\ phoneSuccess' = IF Visible(r) THEN TRUE ELSE phoneSuccess
                /\ phoneError' = IF Visible(r)
                                 THEN [phoneError EXCEPT !.shown = FALSE]
                                 ELSE phoneError
                /\ timers' = Append(timers, u)
           ELSE /\ updates' = [updates EXCEPT ![u].state = "failed"]
                /\ phoneError' =
                       IF Visible(r)
                       THEN [shown |-> TRUE,
                             text |-> IF resp.message # "" THEN resp.message
                                      ELSE "Failed to save phone"]
                       ELSE phoneError
                /\ phoneSuccess' = IF Visible(r) THEN FALSE ELSE phoneSuccess
                /\ UNCHANGED <<renders, timers>>
    /\ UNCHANGED <<envOk, stripe, checkoutInstance, instances, dom, field,
                   listeners, blurs>>
    /\ UNCHANGED <<serverVars, fmtVars>>

\* main.js 217-221, 237-242: the fetch of update-customer-phone rejects
UpdateNetworkError(u) ==
    /\ updates[u].state = "inflight"
    /\ updates' = [updates EXCEPT ![u].state = "failed"]
    /\ phoneError' = IF Visible(updates[u].render)
                     THEN [shown |-> TRUE, text |-> "Failed to fetch"]
                     ELSE phoneError
    /\ phoneSuccess' = IF Visible(updates[u].render) THEN FALSE
                       ELSE phoneSuccess
    /\ UNCHANGED <<envOk, stripe, checkoutInstance, instances, dom, field,
                   renders, listeners, blurs, timers>>
    /\ UNCHANGED <<serverVars, fmtVars>>

\* main.js 233-235: the oldest pending timeout fires
TimerFire ==
    /\ timers # <<>>
    /\ phoneSuccess' = IF Visible(updates[Head(timers)].render) THEN FALSE
                       ELSE phoneSuccess
    /\ timers' = Tail(timers)
    /\ UNCHANGED <<envOk, stripe, checkoutInstance, instances, dom, field,
                   phoneError, renders, listeners, updates, blurs>>
    /\ UNCHANGED <<serverVars, fmtVars>>

Init ==
    /\ ServerInit
    /\ envOk \in BOOLEAN
    /\ PageIdle
    /\ FmtIdle

Next ==
    \/ RenderReturnPage
    \/ RenderBillingPage
    \/ \E r \in 1..Len(renders) : LoadStripeResolve(r)
    \/ \E r \in 1..Len(renders) : LoadStripeReject(r)
    \/ \E r \in 1..Len(renders) : SessionResponse(r)
    \/ \E r \in 1..Len(renders) : SessionNetworkError(r)
    \/ \E r \in 1..Len(renders) : InitResolve(r)
    \/ \E r \in 1..Len(renders) : InitReject(r)
    \/ \E text \in Typed : Input(text)
    \/ Blur
    \/ \E u \in 1..Len(updates) : UpdateResponse(u)
    \/ \E u \in 1..Len(updates) : UpdateNetworkError(u)
    \/ TimerFire
    \/ \E i \in 1..Len(reqs) : SetupHandler(i)
    \/ \E i \in 1..Len(reqs) : CustomersCreateResolve(i)
    \/ \E i \in 1..Len(reqs), m \in PageMessages : CustomersCreateReject(i, m)
    \/ \E i \in 1..Len(reqs) : SessionsCreateResolve(i)
    \/ \E i \in 1..Len(reqs), m \in PageMessages : SessionsCreateReject(i, m)
    \/ \E i \in 1..Len(reqs) : UpdatePhoneHandler(i)
    \/ \E i \in 1..Len(reqs) : CustomersUpdateResolve(i)
    \/ \E i \in 1..Len(reqs), m \in PageMessages : CustomersUpdateReject(i, m)

Spec == Init /\ [][Next]_vars

\* ------------------------------------------------------------ claims: page
InFlight(r) ==
    {u \in 1..Len(updates) :
        updates[u].render = r /\ updates[u].state = "inflight"}

\* C6 as stated: in one page load at most one create-setup-session request
\* leads to an embedded checkout instance, and the hosted checkout is
\* initialised and mounted at most once, however render() is invoked.
C6_SingleCheckout ==
    /\ Len(instances) <= 1
    /\ Cardinality({k \in 1..Len(instances) : instances[k].mounted # 0}) <= 1

C7_Step ==
    /\ \A u \in (Len(updates) + 1)..Len(updates') :
           updates'[u].phone # renders[updates'[u].render].lastSavedPhone
    /\ \A r \in 1..Len(renders) :
           renders'[r].lastSavedPhone # renders[r].lastSavedPhone =>
               \E u \in 1..Len(updates) :
                   /\ updates[u].render = r
                   /\ updates[u].state = "inflight"
                   /\ updates'[u].state = "ok"
                   /\ reqs[updates[u].req].responses = <<UpdateSuccess>>
                   /\ renders'[r].lastSavedPhone = updates[u].phone

\* C7: an invocation never sends an update carrying the phone its last-saved
\* cache holds, and the cache changes only when an update request of that
\* invocation is answered with success, to the phone of that request.
C7_NoRedundantUpdate == [][C7_Step]_vars

\* the first blur saved the phone; the second blur, on a field that gives the
\* same phone, sent nothing
C7_Witness ==
    /\ Len(renders) = 1
    /\ Len(updates) = 1
    /\ updates[1].state = "ok" /\ updates[1].blur = 1
    /\ renders[1].lastSavedPhone = updates[1].phone
    /\ blurs.count = 2 /\ blurs.sent = 0
    /\ Len(DigitsOnly(blurs.value)) = 10
    /\ FormatPhoneToUS(Trim(blurs.value)) = renders[1].lastSavedPhone

\* C8: every update request of the page carries +1 and ten digits and the
\* customer id of the 200 response that the sending invocation got to its
\* create-setup-session request; none is sent before that response, after a
\* failed session creation, or for a field without exactly ten digits.
C8_UpdateRequestsWellFormed ==
    /\ \A u \in 1..Len(updates) :
           LET r == updates[u].render
               q == reqs[updates[u].req]
               sreq == reqs[renders[r].req]
           IN  /\ q.ep = "phone"
               /\ q.phone.t = "string" /\ IsCanonical(q.phone.s)
               /\ q.phone.s = updates[u].phone
               /\ renders[r].pc = "ready"
               /\ sreq.ep = "setup" /\ sreq.pc = "done"
               /\ sreq.responses[1].status = 200
               /\ q.customerId.t = "string"
               /\ q.customerId.s # None
               /\ q.customerId.s = sreq.responses[1].customerId
               /\ Len(DigitsOnly(updates[u].value)) = 10
    /\ \A i \in PhoneRequests : \E u \in 1..Len(updates) : updates[u].req = i

\* a number typed with its country code was cut by the input listener to the
\* field (155) 512-3456, sent as +11555123456 for the customer of this page
\* load, and saved
C8_Witness ==
    \E u \in 1..Len(updates) :
        /\ updates[u].state = "ok"
        /\ updates[u].value = FormatPhoneInput(CanonicalP)
        /\ reqs[updates[u].req].phone.s
               = <<"+", "1", "1", "5", "5", "5", "1", "2", "3", "4", "5", "6">>
        /\ reqs[updates[u].req].customerId.s = CustomerIdOf(1)

\* C10 as stated: at most one update-customer-phone request of an invocation
\* is in flight at any time.
C10_OneInFlight ==
    \A r \in 1..Len(renders) : Cardinality(InFlight(r)) <= 1

\* the update requests of invocation r that the server has not answered yet
Unanswered(r) ==
    {u \in 1..Len(updates) :
        updates[u].render = r /\ reqs[updates[u].req].pc # "done"}

\* the phone the provider stores for the customer of invocation r
ProviderPhone(r) ==
    LET own == {k \in 1..Len(customers) :
                    customers[k].id = renders[r].customerId}
    IN  IF own = {} THEN None ELSE customers[CHOOSE k \in own : TRUE].phone

\* C11 as stated: while the timeout started by a successful update is still
\* pending, and since the blur that sent that update no blur has happened and
\* no update has failed, the saved indicator of the form is displayed: the
\* timeout of an earlier success does not hide it.
C11_IndicatorOutlastsEarlierTimers ==
    \A k \in 1..Len(timers) :
        LET u == timers[k]
        IN  ( /\ Visible(updates[u].render)
              /\ updates[u].state = "ok"
              /\ updates[u].blur = blurs.count
              /\ \A v \in 1..Len(updates) : updates[v].state # "failed" )
                => phoneSuccess

\* C12 as stated: when no update request of an invocation is in flight, at the
\* page or at the server, and its last-saved cache is set, the cache holds the
\* phone the provider stores for the customer of that invocation.
C12_CacheMatchesProvider ==
    \A r \in 1..Len(renders) :
        ( /\ InFlight(r) = {}
          /\ Unanswered(r) = {}
          /\ renders[r].lastSavedPhone # None )
            => ProviderPhone(r) = renders[r].lastSavedPhone

====
